---------------------------- MODULE Spec2Model ----------------------------
(***************************************************************************)
(* Model of the sentence-similarity benchmark scripts                      *)
(* (task-4-sentence-similarity-group-3): predictor.py, syntactic.py,       *)
(* semantic.py and llama_predictor.py.  Each script loads an STS file,     *)
(* scores the pairs, dumps the raw scores, fits a one-feature linear       *)
(* regression on the train split, applies it to the test split, computes   *)
(* Pearson's r and plots the sorted (prediction, ground truth) series.     *)
(*                                                                         *)
(* Text is a sequence of one-character strings.  A float is a fixed-point  *)
(* integer counting units of 10^-FracDigits (2.5 is 250 when FracDigits    *)
(* is 2); the decimal numerals of the inputs have at most FracDigits       *)
(* fractional digits and no exponent, so the representation is exact.      *)
(***************************************************************************)
EXTENDS Integers, Sequences, FiniteSets, TLC

VARIABLES
    file,             \* loader: the rows csv.reader yields for the file
    row_idx,          \* loader: number of rows consumed by the for loop
    sents1,           \* loader: list sents1
    sents2,           \* loader: list sents2
    scores,           \* loader: list scores
    stdout,           \* lines printed so far
    pc,               \* position in the running function
    calls,            \* chat() requests issued so far, each with its outcome
    val,              \* the scorer's latest return value (main: val)
    variant,          \* which script runs: guess, syntactic, semantic or llm
    embedder,         \* semantic main: model, the loaded SentenceTransformer
    encode_calls,     \* the sentence lists of every model.encode call so far
    train_sents1, train_sents2, train_gt,   \* main: the loaded train split
    test_sents1, test_sents2, test_gt,      \* main: the loaded test split
    train_pred_raw,   \* main: raw scores of the train pairs
    test_pred_raw,    \* main: raw scores of the test pairs
    lr_model,         \* main: the LinearRegression object
    fit_calls,        \* the (X, y) arguments of every lr_model.fit call so far
    test_pred_final,  \* main: lr_model.predict(X_test)
    pearson_corr,     \* main: the first component of pearsonr(...)
    data,             \* main: the sorted (prediction, ground truth) pairs
    results           \* the files under ./results

loaderVars == <<file, row_idx, sents1, sents2, scores>>
scorerVars == <<calls, val>>
splitVars == <<train_sents1, train_sents2, train_gt,
               test_sents1, test_sents2, test_gt>>
mainVars == <<variant, embedder, encode_calls, train_sents1, train_sents2, train_gt,
              test_sents1, test_sents2, test_gt, train_pred_raw,
              test_pred_raw, lr_model, fit_calls, test_pred_final,
              pearson_corr, data, results>>
vars == <<file, row_idx, sents1, sents2, scores, stdout, pc, calls, val,
          variant, embedder, encode_calls,
          train_sents1, train_sents2, train_gt,
          test_sents1, test_sents2, test_gt, train_pred_raw,
          test_pred_raw, lr_model, fit_calls, test_pred_final, pearson_corr,
          data, results>>

(***************************************************************************)
(* Bounds of the model.                                                    *)
(***************************************************************************)
FracDigits == 2
MaxRows == 2
MaxTokens == 3
MaxLen == 3
MaxPairs == 2

RECURSIVE Pow10(_)
Pow10(k) == IF k = 0 THEN 1 ELSE 10 * Pow10(k - 1)

\* One unit of the score scale: the float 1.0.
Unit == Pow10(FracDigits)

(***************************************************************************)
(* Text: str.strip, str.split and float(str).                              *)
(***************************************************************************)
Whitespace == {" ", "\t", "\n"}
DigitChars == <<"0", "1", "2", "3", "4", "5", "6", "7", "8", "9">>
IsDigit(c) == \E d \in 1..10 : DigitChars[d] = c
DigitVal(c) == (CHOOSE d \in 1..10 : DigitChars[d] = c) - 1

RECURSIVE LStrip(_)
LStrip(s) ==
    IF s # <<>> /\ Head(s) \in Whitespace THEN LStrip(Tail(s)) ELSE s

RECURSIVE RStrip(_)
RStrip(s) ==
    IF s # <<>> /\ s[Len(s)] \in Whitespace
    THEN RStrip(SubSeq(s, 1, Len(s) - 1))
    ELSE s

Strip(s) == RStrip(LStrip(s))

\* The longest prefix of s made of digits only.
RECURSIVE DigitPrefix(_)
DigitPrefix(s) ==
    IF s # <<>> /\ IsDigit(Head(s))
    THEN <<Head(s)>> \o DigitPrefix(Tail(s))
    ELSE <<>>

\* Value of a digit string as an integer.
RECURSIVE IntOfDigits(_)
IntOfDigits(ds) ==
    IF ds = <<>> THEN 0
    ELSE 10 * IntOfDigits(SubSeq(ds, 1, Len(ds) - 1)) + DigitVal(ds[Len(ds)])

\* Value of the fractional digits ds in units of 10^-FracDigits.
RECURSIVE FracOfDigits(_, _)
FracOfDigits(ds, k) ==
    IF ds = <<>> \/ k = 0 THEN 0
    ELSE DigitVal(Head(ds)) * Pow10(k - 1) + FracOfDigits(Tail(ds), k - 1)

\* The outcome of float(s): the value, or ValueError raised (ok = FALSE).
FloatOk(v) == [ok |-> TRUE, val |-> v]
ValueError == [ok |-> FALSE, val |-> 0]

(***************************************************************************)
(* float(s): surrounding whitespace is stripped; an optional sign; digits  *)
(* with an optional point and fraction, or a point and a fraction.         *)
(* Anything else among the inputs of this model raises ValueError.         *)
(***************************************************************************)
ParseFloat(s) ==
    LET t == Strip(s)
        neg == t # <<>> /\ Head(t) = "-"
        u == IF t # <<>> /\ Head(t) \in {"-", "+"} THEN Tail(t) ELSE t
        ip == DigitPrefix(u)
        r == SubSeq(u, Len(ip) + 1, Len(u))
        hasPoint == r # <<>> /\ Head(r) = "."
        fp == IF hasPoint THEN DigitPrefix(Tail(r)) ELSE <<>>
        rest == IF hasPoint THEN SubSeq(r, Len(fp) + 2, Len(r)) ELSE r
        mag == IntOfDigits(ip) * Unit + FracOfDigits(fp, FracDigits)
    IN  IF rest # <<>> \/ (ip = <<>> /\ fp = <<>>)
        THEN ValueError
        ELSE FloatOk(IF neg THEN 0 - mag ELSE mag)

(***************************************************************************)
(* The loader: load_sts_data_csv / load_sts_data_tsv.                      *)
(***************************************************************************)
\* Minimum number of fields of a usable row (len(row) < 7 is skipped).
MinFields == 7

\* The message print(f"Skipping line {row_idx} due to parse error: {row}").
SkipMessage(idx, row) == [msg |-> "Skipping line", line |-> idx, row |-> row]

\* A loader that appends sentence1 before float() has accepted field 4.
LoadRowSentencesFirst(st, idx, row) ==
    IF Len(row) < MinFields THEN st
    ELSE LET st1 == [st EXCEPT !.sents1 = Append(@, row[6])]
         IN  IF ParseFloat(row[5]) = ValueError
             THEN [st1 EXCEPT !.out = Append(@, SkipMessage(idx, row))]
             ELSE [st1 EXCEPT !.sents2 = Append(@, row[7]),
                              !.scores = Append(@, ParseFloat(row[5]).val)]

\* A loader that also drops rows whose sentence text is empty.
LoadRowSkipEmpty(st, idx, row) ==
    IF Len(row) < MinFields \/ row[6] = <<>> \/ row[7] = <<>> THEN st
    ELSE IF ParseFloat(row[5]) = ValueError
         THEN [st EXCEPT !.out = Append(@, SkipMessage(idx, row))]
         ELSE [st EXCEPT !.sents1 = Append(@, row[6]),
                         !.sents2 = Append(@, row[7]),
                         !.scores = Append(@, ParseFloat(row[5]).val)]

\* The loader's lists after one iteration of the for loop on `row`, whose
\* enumerate index is idx.  Field 4 of the code is row[5] here (1-based).
LoadRowResult(st, idx, row) ==
    IF Len(row) < MinFields THEN st
    ELSE IF ParseFloat(row[5]) = ValueError
         THEN [st EXCEPT !.out = Append(@, SkipMessage(idx, row))]
         ELSE [st EXCEPT !.sents1 = Append(@, row[6]),
                         !.sents2 = Append(@, row[7]),
                         !.scores = Append(@, ParseFloat(row[5]).val)]

\* The whole loader on the rows of a file, from row index idx on.
RECURSIVE LoadFrom(_, _, _)
LoadFrom(st, idx, rows) ==
    IF idx >= Len(rows) THEN st
    ELSE LoadFrom(LoadRowResult(st, idx, rows[idx + 1]), idx + 1, rows)

EmptyLoad == [sents1 |-> <<>>, sents2 |-> <<>>, scores |-> <<>>, out |-> <<>>]

load_sts_data_csv(rows) == LoadFrom(EmptyLoad, 0, rows)

(***************************************************************************)
(* Input rows of the loader specification.                                 *)
(***************************************************************************)
ScoreFields ==
    { <<"5", ".", "0", "0", "0">>,     \* 5.000
      <<"2", ".", "5">>,               \* 2.5
      <<" ", "-", "1", " ">>,          \* " -1 ": float() strips whitespace
      <<>>,                            \* empty field
      <<"s", "c", "o", "r", "e">>,     \* a header cell
      <<"1", ".", "2", ".", "3">> }    \* not a numeral

SentencePairs ==
    { <<<<"a">>, <<"b">>>>, <<<<>>, <<"b">>>>, <<<<"c">>, <<>>>> }

Filler == <<"m">>

FullRow(f4, sp) == <<Filler, Filler, Filler, Filler, f4, sp[1], sp[2]>>

LoaderRows ==
    { FullRow(f4, sp) : f4 \in ScoreFields, sp \in SentencePairs }
    \cup { FullRow(<<"3">>, <<<<"a">>, <<"b">>>>) \o <<x>> :
              x \in {<<"9">>, <<"z">>} }
    \cup { <<>>,
           <<Filler, Filler, Filler, Filler, <<"4">>>>,
           <<Filler, Filler, Filler, Filler, <<"4">>, <<"a">>>> }

RECURSIVE SeqsUpTo(_, _)
SeqsUpTo(S, n) ==
    IF n = 0 THEN {<<>>}
    ELSE LET shorter == SeqsUpTo(S, n - 1)
         IN  shorter \cup { Append(q, x) : q \in shorter, x \in S }

(***************************************************************************)
(* The elicited scorer: get_llm_similarity_ollama.                         *)
(***************************************************************************)
\* A return value: None, or a float.
None == [none |-> TRUE, val |-> 0]
Some(v) == [none |-> FALSE, val |-> v]

\* An outcome of chat(): an exception raised, or the response text.
Raised == [raised |-> TRUE, text |-> <<>>]
Response(t) == [raised |-> FALSE, text |-> t]

\* chat() is given no timeout: a request the server never answers has no
\* outcome.
NoResponse == [raised |-> FALSE, text |-> <<>>, pending |-> TRUE]

\* One chat() request, for the prompt built from sent1 and sent2, and its
\* outcome.
Call(s1, s2, reply) == [sent1 |-> s1, sent2 |-> s2, reply |-> reply]

Cat == <<"c", "a", "t">>
Dog == <<"d", "o", "g">>

\* The longest prefix of s without whitespace.
RECURSIVE WordPrefix(_)
WordPrefix(s) ==
    IF s # <<>> /\ Head(s) \notin Whitespace
    THEN <<Head(s)>> \o WordPrefix(Tail(s))
    ELSE <<>>

\* output.split(): the maximal runs of non-whitespace characters, in order.
RECURSIVE Split(_)
Split(s) ==
    LET t == LStrip(s)
        w == WordPrefix(t)
    IN  IF t = <<>> THEN <<>>
        ELSE <<w>> \o Split(SubSeq(t, Len(w) + 1, Len(t)))

\* A parse loop without the break: the last chunk that parses wins.
RECURSIVE LastFloat(_)
LastFloat(chunks) ==
    IF chunks = <<>> THEN None
    ELSE LET later == LastFloat(Tail(chunks))
         IN  IF ~later.none THEN later
             ELSE IF ParseFloat(Head(chunks)).ok
                  THEN Some(ParseFloat(Head(chunks)).val)
                  ELSE None

\* for chunk in output.split(): try float(chunk), break on the first success.
RECURSIVE FirstFloat(_)
FirstFloat(chunks) ==
    IF chunks = <<>> THEN None
    ELSE IF ParseFloat(Head(chunks)).ok
         THEN Some(ParseFloat(Head(chunks)).val)
         ELSE FirstFloat(Tail(chunks))

\* float_val * 5.0
ScaleFactor == 5
\* max(0.0, min(5.0, float_val))
ClipLow == 0
ClipHigh == 5 * Unit
Min(a, b) == IF b < a THEN b ELSE a
Max(a, b) == IF b > a THEN b ELSE a
Clip(v) == Max(ClipLow, Min(ClipHigh, v))

\* The return value and the printed lines of one call whose chat() outcome
\* is `reply`.
get_llm_similarity_ollama(reply) ==
    IF reply.raised
    THEN [ret |-> None, printed |-> <<[msg |-> "LLM call failed"]>>]
    ELSE LET float_val == FirstFloat(Split(reply.text))
         IN  IF float_val.none
             THEN [ret |-> None,
                   printed |-> <<[msg |-> "result", text |-> reply.text],
                                 [msg |-> "WARNING: Could not parse float",
                                  text |-> reply.text]>>]
             ELSE [ret |-> Some(Clip(float_val.val * ScaleFactor)),
                   printed |-> <<[msg |-> "result", text |-> reply.text],
                                 [msg |-> "float_val",
                                  val |-> float_val.val * ScaleFactor]>>]

(***************************************************************************)
(* Response texts of the scorer specification: up to MaxTokens tokens      *)
(* joined by whitespace.                                                   *)
(***************************************************************************)
Tokens ==
    { <<"0", ".", "8">>,
      <<"(", "h", "i", "g", "h">>,
      <<"s", "i", "m", "i", "l", "a", "r", "i", "t", "y", ")">>,
      <<"v", "e", "r", "y">>,
      <<"1", ".", "5">>,
      <<"-", "0", ".", "2">>,
      <<"0", ".", "2", "5">> }

RECURSIVE Join(_, _)
Join(ts, sep) ==
    IF ts = <<>> THEN <<>>
    ELSE IF Len(ts) = 1 THEN ts[1]
    ELSE ts[1] \o sep \o Join(Tail(ts), sep)

Separators == { <<" ">>, <<"\n", " ">> }
Leads == { <<>>, <<" ">> }

Responses ==
    { lead \o Join(ts, sep) :
        lead \in Leads, sep \in Separators, ts \in SeqsUpTo(Tokens, MaxTokens) }

\* "0.8 (high similarity)"
ExampleResponse ==
    Join(<< <<"0", ".", "8">>, <<"(", "h", "i", "g", "h">>,
            <<"s", "i", "m", "i", "l", "a", "r", "i", "t", "y", ")">> >>, <<" ">>)

(***************************************************************************)
(* Calibration: LinearRegression().fit(X, y) and predict(X) on one         *)
(* feature, in exact rational arithmetic.                                  *)
(***************************************************************************)
RECURSIVE Sum(_)
Sum(q) == IF q = <<>> THEN 0 ELSE Head(q) + Sum(Tail(q))

Products(x, y) == [i \in 1..Len(x) |-> x[i] * y[i]]

Abs(a) == IF a < 0 THEN 0 - a ELSE a

RECURSIVE Gcd(_, _)
Gcd(a, b) == IF b = 0 THEN Abs(a) ELSE Gcd(b, a % b)

\* The object before fit() has run.
NoModel == [fitted |-> FALSE, coef |-> <<0, 1>>, intercept |-> <<0, 1>>]

\* Ordinary least squares of y on the single feature x (n >= 1 samples):
\* coef_ is the fraction coef[1]/coef[2], intercept_ the fraction
\* intercept[1]/intercept[2], and intercept[2] is a multiple of coef[2].
\* A constant feature gives coef_ = 0 and intercept_ = mean(y).
LinearRegressionFit(x, y) ==
    LET n == Len(x)
        sxx == n * Sum(Products(x, x)) - Sum(x) * Sum(x)
        sxy == n * Sum(Products(x, y)) - Sum(x) * Sum(y)
        g == Gcd(sxy, sxx)
        a == IF sxx = 0 THEN 0 ELSE sxy \div g
        b == IF sxx = 0 THEN 1 ELSE sxx \div g
    IN  [fitted |-> TRUE,
         coef |-> <<a, b>>,
         intercept |-> <<Sum(y) * b - a * Sum(x), n * b>>]

\* lr_model.predict(X): entry i is the numerator of coef_ * x[i] + intercept_
\* over the denominator model.intercept[2], which all entries share.
LinearRegressionPredict(model, x) ==
    [i \in 1..Len(x) |->
        model.coef[1] * (model.intercept[2] \div model.coef[2]) * x[i]
            + model.intercept[1]]

(***************************************************************************)
(* Evaluation: scipy.stats.pearsonr and the sorted series.                 *)
(***************************************************************************)
IsConstant(q) == \A i \in 1..Len(q) : q[i] = q[1]

NotComputed == [kind |-> "none"]
NaN == [kind |-> "nan"]

\* pearsonr(x, y)[0] for len(x) >= 2: NaN (with a ConstantInputWarning) when
\* either input is constant, else Pearson's r of x and y, kept as the term
\* r(x, y).
PearsonR(x, y) ==
    IF IsConstant(x) \/ IsConstant(y) THEN NaN
    ELSE [kind |-> "r", x |-> x, y |-> y]

\* f"{pearson_corr:.4f}": the text "nan" for NaN, else the decimal numeral
\* of the number, kept as the term it formats.
FormatCorr(c) ==
    IF c = NaN THEN [text |-> <<"n", "a", "n">>]
    ELSE [text |-> <<"%", ".", "4", "f">>, of |-> c]

\* zip(a, b)
Zip(a, b) == [i \in 1..Min(Len(a), Len(b)) |-> <<a[i], b[i]>>]

\* A sort key of the prediction alone.
KeyLessPredictionOnly(p, q) == p[1] < q[1]

\* key=lambda p: (p[0], p[1]): tuples compare lexicographically.
KeyLess(p, q) == p[1] < q[1] \/ (p[1] = q[1] /\ p[2] < q[2])

\* p inserted into the sorted list q after every element whose key is not
\* greater than p's (sorted() is stable).
RECURSIVE Insert(_, _)
Insert(p, q) ==
    IF q = <<>> THEN <<p>>
    ELSE IF KeyLess(p, Head(q)) THEN <<p>> \o q
    ELSE <<Head(q)>> \o Insert(p, Tail(q))

\* sorted(pairs, key=...)
RECURSIVE Sorted(_)
Sorted(pairs) ==
    IF pairs = <<>> THEN <<>>
    ELSE Insert(pairs[Len(pairs)], Sorted(SubSeq(pairs, 1, Len(pairs) - 1)))

(***************************************************************************)
(* f"{s}" of a float, and the dumps written under ./results.               *)
(***************************************************************************)
RECURSIVE DigitsOf(_)
DigitsOf(n) ==
    IF n < 10 THEN <<DigitChars[n + 1]>>
    ELSE DigitsOf(n \div 10) \o <<DigitChars[(n % 10) + 1]>>

\* The k fractional digits of f (0 <= f < 10^k) without trailing zeros, at
\* least one digit.
RECURSIVE FracText(_, _)
FracText(f, k) ==
    IF k <= 1 THEN <<DigitChars[f + 1]>>
    ELSE IF f % 10 = 0 THEN FracText(f \div 10, k - 1)
    ELSE FracText(f \div 10, k - 1) \o <<DigitChars[(f % 10) + 1]>>

\* repr of a float: 4.0, 2.5, -0.25.
FormatFloat(v) ==
    (IF v < 0 THEN <<"-">> ELSE <<>>)
        \o DigitsOf(Abs(v) \div Unit) \o <<".">>
        \o FracText(Abs(v) % Unit, FracDigits)

RECURSIVE Concat(_)
Concat(parts) == IF parts = <<>> THEN <<>> ELSE Head(parts) \o Concat(Tail(parts))

\* save_scores_to_file of llama_predictor.py: f.write(f"{s}") per score.
save_scores_to_file_llm(scs) ==
    Concat([i \in 1..Len(scs) |-> FormatFloat(scs[i])])

\* save_scores_to_file of predictor.py, syntactic.py and semantic.py:
\* f.write(f"{s}\n") per score.
save_scores_to_file(scs) ==
    Concat([i \in 1..Len(scs) |-> FormatFloat(scs[i]) \o <<"\n">>])

\* for s1, s2, score in zip(...): f.write(f"{s1}\t{s2}\t{score}\n")
save_sentences(s1, s2, scs) ==
    Concat([i \in 1..Min(Min(Len(s1), Len(s2)), Len(scs)) |->
              s1[i] \o <<"\t">> \o s2[i] \o <<"\t">>
                  \o FormatFloat(scs[i]) \o <<"\n">>])

Written(t) == [written |-> TRUE, text |-> t]

(***************************************************************************)
(* The embedding scorer: compute_semantic_similarities.                    *)
(***************************************************************************)
\* The sentences of the input files.
Sentences == {Cat, Dog}

\* Embeddings a model can return for a sentence.
Vectors == { <<1, 0>>, <<0, 2>>, <<0 - 1, 0>> }

\* A loaded model maps every sentence to its embedding; before the model is
\* loaded there is none.
Encoders == [Sentences -> Vectors]
NoEncoder == [s \in Sentences |-> <<>>]

\* model.encode(sentences, ...): one embedding per sentence, in order.
Encode(enc, sentences) == [j \in 1..Len(sentences) |-> enc[sentences[j]]]

Dot(v, w) == Sum([k \in 1..Len(v) |-> v[k] * w[k]])

\* The Euclidean norm of a vector whose norm is an integer.
Norm(v) == CHOOSE k \in 0..Dot(v, v) : k * k = Dot(v, v)

\* cosine_similarity(v1, v2)[0][0]
cosine_similarity(v1, v2) == (Dot(v1, v2) * Unit) \div (Norm(v1) * Norm(v2))

\* A scorer that encodes every pair on its own.
compute_semantic_similarities_per_pair(s1, s2, enc) ==
    [sims |-> [i \in 1..Len(s1) |->
                  LET e == Encode(enc, <<s1[i], s2[i]>>)
                  IN  cosine_similarity(e[1], e[2])],
     encoded |-> [i \in 1..Len(s1) |-> <<s1[i], s2[i]>>]]

\* compute_semantic_similarities(sents1, sents2, model): the similarities
\* and the argument of the encode call made.
compute_semantic_similarities(s1, s2, enc) ==
    LET all_sentences == s1 \o s2
        all_embeddings == Encode(enc, all_sentences)
        half == Len(s1)
        emb_sents1 == SubSeq(all_embeddings, 1, half)
        emb_sents2 == SubSeq(all_embeddings, half + 1, Len(all_embeddings))
    IN  [sims |-> [i \in 1..half |->
                      cosine_similarity(emb_sents1[i], emb_sents2[i])],
         encoded |-> <<all_sentences>>]

(***************************************************************************)
(* The files under ./results.                                              *)
(***************************************************************************)
NotWritten == [written |-> FALSE, text |-> <<>>]
NoResults ==
    [f \in {"train_scores", "train_sentences", "test_scores",
            "test_sentences", "plot"} |-> NotWritten]

IdleMain ==
    /\ variant = "none"
    /\ embedder = NoEncoder
    /\ encode_calls = <<>>
    /\ train_sents1 = <<>>
    /\ train_sents2 = <<>>
    /\ train_gt = <<>>
    /\ test_sents1 = <<>>
    /\ test_sents2 = <<>>
    /\ test_gt = <<>>
    /\ train_pred_raw = <<>>
    /\ test_pred_raw = <<>>
    /\ lr_model = NoModel
    /\ fit_calls = <<>>
    /\ test_pred_final = <<>>
    /\ pearson_corr = NotComputed
    /\ data = <<>>
    /\ results = NoResults

IdleLoader ==
    /\ file = <<>>
    /\ row_idx = 0
    /\ sents1 = <<>>
    /\ sents2 = <<>>
    /\ scores = <<>>

IdleScorer ==
    /\ calls = <<>>
    /\ val = None

(***************************************************************************)
(* SpecElicit: one call of the elicited scorer on any chat() outcome.      *)
(***************************************************************************)
InitElicit ==
    /\ IdleLoader
    /\ IdleScorer
    /\ IdleMain
    /\ stdout = <<>>
    /\ pc = "call"

\* chat() raises or answers, and the function returns.
ElicitCall ==
    /\ pc = "call"
    /\ \E reply \in {Raised} \cup { Response(t) : t \in Responses } :
          LET r == get_llm_similarity_ollama(reply)
          IN  /\ calls' = Append(calls, Call(Cat, Dog, reply))
              /\ val' = r.ret
              /\ stdout' = stdout \o r.printed
    /\ pc' = "returned"
    /\ UNCHANGED <<loaderVars, mainVars>>

NextElicit == ElicitCall

SpecElicit == InitElicit /\ [][NextElicit]_vars

(***************************************************************************)
(* SpecSort: the sorted series of any equal-length prediction and ground   *)
(* truth sequences of at most MaxLen entries.                              *)
(***************************************************************************)
SortValues == 0..2

InitSort ==
    /\ IdleLoader
    /\ IdleScorer
    /\ variant = "none"
    /\ embedder = NoEncoder
    /\ encode_calls = <<>>
    /\ train_sents1 = <<>>
    /\ train_sents2 = <<>>
    /\ train_gt = <<>>
    /\ test_sents1 = <<>>
    /\ test_sents2 = <<>>
    /\ train_pred_raw = <<>>
    /\ test_pred_raw = <<>>
    /\ lr_model = NoModel
    /\ fit_calls = <<>>
    /\ \E n \in 0..MaxLen :
          /\ test_pred_final \in [1..n -> SortValues]
          /\ test_gt \in [1..n -> SortValues]
    /\ pearson_corr = NotComputed
    /\ data = <<>>
    /\ results = NoResults
    /\ stdout = <<>>
    /\ pc = "sort"

\* data = sorted(zip(test_pred_final, test_gt), key=lambda p: (p[0], p[1]))
SortSeries ==
    /\ pc = "sort"
    /\ data' = Sorted(Zip(test_pred_final, test_gt))
    /\ pc' = "sorted"
    /\ UNCHANGED <<loaderVars, scorerVars, stdout, variant, embedder, encode_calls, splitVars,
                   train_pred_raw, test_pred_raw, lr_model, fit_calls, test_pred_final,
                   pearson_corr, results>>

NextSort == SortSeries

SpecSort == InitSort /\ [][NextSort]_vars

(***************************************************************************)
(* SpecLoad: one run of the loader on any file of at most MaxRows rows.    *)
(***************************************************************************)
InitLoad ==
    /\ file \in SeqsUpTo(LoaderRows, MaxRows)
    /\ row_idx = 0
    /\ sents1 = <<>>
    /\ sents2 = <<>>
    /\ scores = <<>>
    /\ stdout = <<>>
    /\ pc = "load"
    /\ IdleScorer
    /\ IdleMain

\* One iteration of `for row_idx, row in enumerate(reader)`.
LoadRow ==
    /\ pc = "load"
    /\ row_idx < Len(file)
    /\ LET st == LoadRowResult(
                    [sents1 |-> sents1, sents2 |-> sents2,
                     scores |-> scores, out |-> stdout],
                    row_idx, file[row_idx + 1])
       IN  /\ sents1' = st.sents1
           /\ sents2' = st.sents2
           /\ scores' = st.scores
           /\ stdout' = st.out
    /\ row_idx' = row_idx + 1
    /\ UNCHANGED <<file, pc, scorerVars, mainVars>>

\* The reader is exhausted: return sents1, sents2, scores.
LoadReturn ==
    /\ pc = "load"
    /\ row_idx = Len(file)
    /\ pc' = "loaded"
    /\ UNCHANGED <<loaderVars, stdout, scorerVars, mainVars>>

NextLoad == LoadRow \/ LoadReturn

SpecLoad == InitLoad /\ [][NextLoad]_vars

(***************************************************************************)
(* Spec: one run of main() of any of the four scripts.                     *)
(***************************************************************************)
Variants == {"guess", "syntactic", "semantic", "llm"}

\* The rows of the input files of a run: a header row, a short row and two
\* records, with ground truth 0.0 and 5.0.
HeaderRow == FullRow(<<"s", "c", "o", "r", "e">>, <<Cat, Dog>>)
ShortRow == <<Filler, Filler, Filler, Filler, <<"4">>>>
RecordRows == { FullRow(<<"0">>, <<Cat, Dog>>), FullRow(<<"5">>, <<Cat, Cat>>) }

\* A header, at most MaxPairs records and possibly a short last row.
PipeFiles ==
    { <<HeaderRow>> \o recs \o last :
        recs \in SeqsUpTo(RecordRows, MaxPairs), last \in {<<>>, <<ShortRow>>} }

\* Raw scores the guess and the lexical scorer can return for a pair:
\* random.uniform(0, 5), and the TF-IDF cosine similarities.
RawValues(v) ==
    CASE v = "guess" -> {Unit, 4 * Unit}
      [] OTHER -> {0, Unit}

\* Outcomes of chat() in a run: an error, "0.8 (high similarity)" and
\* "very similar".
PipeReplies ==
    { Raised,
      Response(ExampleResponse),
      Response(Join(<< <<"v", "e", "r", "y">>,
                       <<"s", "i", "m", "i", "l", "a", "r">> >>, <<" ">>)) }

\* What get_llm_similarity_ollama returns and prints for each outcome of
\* chat() in a run.
PipeResults == [reply \in PipeReplies |-> get_llm_similarity_ollama(reply)]

\* val = 2.5  # fallback default if LLM fails
Fallback == (5 * Unit) \div 2

Init ==
    /\ IdleLoader
    /\ IdleScorer
    /\ variant \in Variants
    /\ embedder = NoEncoder
    /\ encode_calls = <<>>
    /\ train_sents1 = <<>>
    /\ train_sents2 = <<>>
    /\ train_gt = <<>>
    /\ test_sents1 = <<>>
    /\ test_sents2 = <<>>
    /\ test_gt = <<>>
    /\ train_pred_raw = <<>>
    /\ test_pred_raw = <<>>
    /\ lr_model = NoModel
    /\ fit_calls = <<>>
    /\ test_pred_final = <<>>
    /\ pearson_corr = NotComputed
    /\ data = <<>>
    /\ results = NoResults
    /\ stdout = <<>>
    /\ pc = "load"

\* (B) both files are loaded, train first.
LoadData ==
    /\ pc = "load"
    /\ \E trainFile \in PipeFiles, testFile \in PipeFiles :
          LET tr == load_sts_data_csv(trainFile)
              te == load_sts_data_csv(testFile)
          IN  /\ train_sents1' = tr.sents1
              /\ train_sents2' = tr.sents2
              /\ train_gt' = tr.scores
              /\ test_sents1' = te.sents1
              /\ test_sents2' = te.sents2
              /\ test_gt' = te.scores
              /\ stdout' = stdout \o tr.out \o te.out
    /\ pc' = IF variant \in {"syntactic", "semantic"}
             THEN "fit_scorer" ELSE "score_train"
    /\ UNCHANGED <<loaderVars, scorerVars, variant, embedder, encode_calls, train_pred_raw,
                   test_pred_raw, lr_model, fit_calls, test_pred_final, pearson_corr,
                   data, results>>

\* syntactic: TfidfVectorizer().fit(train_sents1 + train_sents2), which
\* raises on an empty corpus; semantic: SentenceTransformer(model_name),
\* which loads the model or fails.
FitScorer ==
    /\ pc = "fit_scorer"
    /\ \E ok \in BOOLEAN :
          /\ variant = "syntactic" => ok = (train_sents1 \o train_sents2 # <<>>)
          /\ pc' = IF ok THEN "score_train" ELSE "scorer_unavailable"
          /\ IF variant = "semantic" /\ ok
             THEN embedder' \in Encoders
             ELSE UNCHANGED embedder
    /\ UNCHANGED <<loaderVars, scorerVars, stdout, variant, encode_calls,
                   splitVars, train_pred_raw, test_pred_raw, lr_model,
                   fit_calls, test_pred_final, pearson_corr, data, results>>

\* guess, syntactic: the raw scores of the train pairs.
ScoreTrain ==
    /\ pc = "score_train"
    /\ variant \in {"guess", "syntactic"}
    /\ train_pred_raw' \in
          [1..Min(Len(train_sents1), Len(train_sents2)) -> RawValues(variant)]
    /\ pc' = "save_train"
    /\ UNCHANGED <<loaderVars, scorerVars, stdout, variant, embedder, encode_calls, splitVars,
                   test_pred_raw, lr_model, fit_calls, test_pred_final, pearson_corr,
                   data, results>>

\* semantic: train_pred_raw = compute_semantic_similarities(train_sents1,
\* train_sents2, model).
ScoreTrainSemantic ==
    /\ pc = "score_train"
    /\ variant = "semantic"
    /\ LET r == compute_semantic_similarities(train_sents1, train_sents2,
                                              embedder)
       IN  /\ train_pred_raw' = r.sims
           /\ encode_calls' = encode_calls \o r.encoded
    /\ pc' = "save_train"
    /\ UNCHANGED <<loaderVars, scorerVars, stdout, variant, embedder,
                   splitVars, test_pred_raw, lr_model, fit_calls,
                   test_pred_final, pearson_corr, data, results>>

\* The value main appends for a pair whose scorer call returned r.
RawOrNone(ret) == ret.val

\* A loop that appends -1.0, a marker of a missing score, for a pair whose
\* scorer call returned None.
RawOrMissing(ret) == IF ret.none THEN 0 - Unit ELSE ret.val

RawOrFallback(ret) == IF ret.none THEN Fallback ELSE ret.val

\* An iteration of the train loop that asks once more for a pair whose first
\* request yielded no score.
ScoreTrainPairRetry ==
    /\ pc = "score_train"
    /\ variant = "llm"
    /\ Len(train_pred_raw) < Min(Len(train_sents1), Len(train_sents2))
    /\ \E reply \in PipeReplies, again \in PipeReplies :
          LET i == Len(train_pred_raw) + 1
              first == PipeResults[reply]
              second == PipeResults[again]
              r == IF first.ret.none THEN second ELSE first
              issued == IF first.ret.none THEN <<reply, again>> ELSE <<reply>>
          IN  /\ calls' = calls \o [k \in 1..Len(issued) |->
                                      Call(train_sents1[i], train_sents2[i], issued[k])]
              /\ val' = Some(RawOrFallback(r.ret))
              /\ train_pred_raw' = Append(train_pred_raw, RawOrFallback(r.ret))
              /\ stdout' = stdout \o r.printed
    /\ UNCHANGED <<loaderVars, pc, variant, embedder, encode_calls, splitVars, test_pred_raw,
                   lr_model, fit_calls, test_pred_final, pearson_corr, data, results>>

\* llm: one iteration of the train loop: one chat() request, its outcome,
\* the fallback on None, the append.
ScoreTrainPair ==
    /\ pc = "score_train"
    /\ variant = "llm"
    /\ Len(train_pred_raw) < Min(Len(train_sents1), Len(train_sents2))
    /\ \E reply \in PipeReplies :
          LET i == Len(train_pred_raw) + 1
              r == PipeResults[reply]
          IN  /\ calls' = Append(calls, Call(train_sents1[i], train_sents2[i], reply))
              /\ val' = Some(RawOrFallback(r.ret))
              /\ train_pred_raw' = Append(train_pred_raw, RawOrFallback(r.ret))
              /\ stdout' = stdout \o r.printed
    /\ UNCHANGED <<loaderVars, pc, variant, embedder, encode_calls, splitVars, test_pred_raw,
                   lr_model, fit_calls, test_pred_final, pearson_corr, data, results>>

\* llm: the train loop has consumed every pair.
ScoreTrainEnd ==
    /\ pc = "score_train"
    /\ variant = "llm"
    /\ Len(train_pred_raw) = Min(Len(train_sents1), Len(train_sents2))
    /\ pc' = "save_train"
    /\ UNCHANGED <<loaderVars, scorerVars, stdout, mainVars>>

\* The text save_scores_to_file writes in the running script.
ScoreDump(scs) ==
    IF variant = "llm" THEN save_scores_to_file_llm(scs)
    ELSE save_scores_to_file(scs)

\* The raw train scores and the train sentence dump are written.
SaveTrain ==
    /\ pc = "save_train"
    /\ results' =
          [results EXCEPT
              !["train_scores"] = Written(ScoreDump(train_pred_raw)),
              !["train_sentences"] =
                  Written(save_sentences(train_sents1, train_sents2,
                                         train_pred_raw))]
    /\ pc' = "fit"
    /\ UNCHANGED <<loaderVars, scorerVars, stdout, variant, embedder, encode_calls, splitVars,
                   train_pred_raw, test_pred_raw, lr_model, fit_calls, test_pred_final,
                   pearson_corr, data>>

\* X_train, y_train
FitInputs == <<train_pred_raw, train_gt>>

\* lr_model = LinearRegression(); lr_model.fit(X_train, y_train): sklearn
\* raises ValueError on an array of 0 samples.  predictor.py then prints
\* the coefficients.
FitModel ==
    /\ pc = "fit"
    /\ fit_calls' = Append(fit_calls, FitInputs)
    /\ IF Len(FitInputs[1]) = 0
       THEN /\ pc' = "crashed"
            /\ UNCHANGED <<lr_model, stdout>>
       ELSE /\ lr_model' = LinearRegressionFit(FitInputs[1], FitInputs[2])
            /\ stdout' = IF variant = "guess"
                         THEN Append(stdout, [msg |-> "Coefficients",
                                              coef |-> lr_model'.coef,
                                              intercept |-> lr_model'.intercept])
                         ELSE stdout
            /\ pc' = "score_test"
    /\ UNCHANGED <<loaderVars, scorerVars, variant, embedder, encode_calls, splitVars, train_pred_raw,
                   test_pred_raw, test_pred_final, pearson_corr, data,
                   results>>

\* guess, syntactic: the raw scores of the test pairs.
ScoreTest ==
    /\ pc = "score_test"
    /\ variant \in {"guess", "syntactic"}
    /\ test_pred_raw' \in
          [1..Min(Len(test_sents1), Len(test_sents2)) -> RawValues(variant)]
    /\ pc' = "save_test"
    /\ UNCHANGED <<loaderVars, scorerVars, stdout, variant, embedder, encode_calls, splitVars,
                   train_pred_raw, lr_model, fit_calls, test_pred_final, pearson_corr,
                   data, results>>

\* semantic: test_pred_raw = compute_semantic_similarities(test_sents1,
\* test_sents2, model).
ScoreTestSemantic ==
    /\ pc = "score_test"
    /\ variant = "semantic"
    /\ LET r == compute_semantic_similarities(test_sents1, test_sents2,
                                              embedder)
       IN  /\ test_pred_raw' = r.sims
           /\ encode_calls' = encode_calls \o r.encoded
    /\ pc' = "save_test"
    /\ UNCHANGED <<loaderVars, scorerVars, stdout, variant, embedder,
                   splitVars, train_pred_raw, lr_model, fit_calls,
                   test_pred_final, pearson_corr, data, results>>

\* llm: one iteration of the test loop.
ScoreTestPair ==
    /\ pc = "score_test"
    /\ variant = "llm"
    /\ Len(test_pred_raw) < Min(Len(test_sents1), Len(test_sents2))
    /\ \E reply \in PipeReplies :
          LET i == Len(test_pred_raw) + 1
              r == PipeResults[reply]
          IN  /\ calls' = Append(calls, Call(test_sents1[i], test_sents2[i], reply))
              /\ val' = Some(RawOrFallback(r.ret))
              /\ test_pred_raw' = Append(test_pred_raw, RawOrFallback(r.ret))
              /\ stdout' = stdout \o r.printed
    /\ UNCHANGED <<loaderVars, pc, variant, embedder, encode_calls, splitVars, train_pred_raw,
                   lr_model, fit_calls, test_pred_final, pearson_corr, data, results>>

\* llm: a request of either loop that the server never answers.  chat() is
\* called without a timeout, so the call does not return.
ChatNeverReturns ==
    /\ variant = "llm"
    /\ \/ /\ pc = "score_train"
          /\ Len(train_pred_raw) < Min(Len(train_sents1), Len(train_sents2))
          /\ LET i == Len(train_pred_raw) + 1
             IN  calls' = Append(calls, Call(train_sents1[i], train_sents2[i],
                                             NoResponse))
       \/ /\ pc = "score_test"
          /\ Len(test_pred_raw) < Min(Len(test_sents1), Len(test_sents2))
          /\ LET i == Len(test_pred_raw) + 1
             IN  calls' = Append(calls, Call(test_sents1[i], test_sents2[i],
                                             NoResponse))
    /\ pc' = "in_chat"
    /\ UNCHANGED <<loaderVars, val, stdout, mainVars>>

\* llm: the test loop has consumed every pair.
ScoreTestEnd ==
    /\ pc = "score_test"
    /\ variant = "llm"
    /\ Len(test_pred_raw) = Min(Len(test_sents1), Len(test_sents2))
    /\ pc' = "save_test"
    /\ UNCHANGED <<loaderVars, scorerVars, stdout, mainVars>>

\* The raw test scores and the test sentence dump are written.
SaveTest ==
    /\ pc = "save_test"
    /\ results' =
          [results EXCEPT
              !["test_scores"] = Written(ScoreDump(test_pred_raw)),
              !["test_sentences"] =
                  Written(save_sentences(test_sents1, test_sents2,
                                         test_pred_raw))]
    /\ pc' = "apply"
    /\ UNCHANGED <<loaderVars, scorerVars, stdout, variant, embedder, encode_calls, splitVars,
                   train_pred_raw, test_pred_raw, lr_model, fit_calls, test_pred_final,
                   pearson_corr, data>>

\* An apply step that fits the model again, on the test split, before it
\* predicts.
ApplyModelRefit ==
    /\ pc = "apply"
    /\ IF Len(test_pred_raw) = 0
       THEN /\ pc' = "crashed"
            /\ UNCHANGED <<test_pred_final, lr_model, fit_calls>>
       ELSE /\ lr_model' = LinearRegressionFit(test_pred_raw, test_gt)
            /\ fit_calls' = Append(fit_calls, <<test_pred_raw, test_gt>>)
            /\ test_pred_final' = LinearRegressionPredict(lr_model', test_pred_raw)
            /\ pc' = "evaluate"
    /\ UNCHANGED <<loaderVars, scorerVars, stdout, variant, embedder, encode_calls, splitVars,
                   train_pred_raw, test_pred_raw, pearson_corr, data,
                   results>>

\* test_pred_final = lr_model.predict(X_test): sklearn raises ValueError on
\* an array of 0 samples.
ApplyModel ==
    /\ pc = "apply"
    /\ IF Len(test_pred_raw) = 0
       THEN /\ pc' = "crashed"
            /\ UNCHANGED test_pred_final
       ELSE /\ test_pred_final' = LinearRegressionPredict(lr_model, test_pred_raw)
            /\ pc' = "evaluate"
    /\ UNCHANGED <<loaderVars, scorerVars, stdout, variant, embedder, encode_calls, splitVars,
                   train_pred_raw, test_pred_raw, lr_model, fit_calls, pearson_corr,
                   data, results>>

\* pearson_corr, _ = pearsonr(test_pred_final, test_gt), which raises
\* ValueError on fewer than 2 samples; then the print of the correlation.
Evaluate ==
    /\ pc = "evaluate"
    /\ IF Len(test_pred_final) < 2
       THEN /\ pc' = "crashed"
            /\ UNCHANGED <<pearson_corr, stdout>>
       ELSE /\ pearson_corr' = PearsonR(test_pred_final, test_gt)
            /\ stdout' = Append(stdout, [msg |-> "Pearson Correlation (Test) =",
                                         value |-> FormatCorr(pearson_corr')])
            /\ pc' = "plot"
    /\ UNCHANGED <<loaderVars, scorerVars, variant, embedder, encode_calls, splitVars, train_pred_raw,
                   test_pred_raw, lr_model, fit_calls, test_pred_final, data, results>>

\* The sorted series is plotted, annotated with the correlation, and saved.
Plot ==
    /\ pc = "plot"
    /\ data' = Sorted(Zip(test_pred_final, test_gt))
    /\ results' =
          [results EXCEPT
              !["plot"] =
                  [written |-> TRUE,
                   text |-> <<>>,
                   x_sorted |-> [i \in 1..Len(data') |-> data'[i][1]],
                   y_sorted |-> [i \in 1..Len(data') |-> data'[i][2]],
                   annotation |-> FormatCorr(pearson_corr)]]
    /\ pc' = "done"
    /\ UNCHANGED <<loaderVars, scorerVars, stdout, variant, embedder, encode_calls, splitVars,
                   train_pred_raw, test_pred_raw, lr_model, fit_calls, test_pred_final,
                   pearson_corr>>

Next ==
    \/ LoadData
    \/ FitScorer
    \/ ScoreTrain
    \/ ScoreTrainSemantic
    \/ ScoreTrainPair
    \/ ScoreTrainEnd
    \/ SaveTrain
    \/ FitModel
    \/ ScoreTest
    \/ ScoreTestSemantic
    \/ ScoreTestPair
    \/ ScoreTestEnd
    \/ ChatNeverReturns
    \/ SaveTest
    \/ ApplyModel
    \/ Evaluate
    \/ Plot

Spec == Init /\ [][Next]_vars

\* The interpreter executes the script's next statement whenever there is
\* one: a run does not stop while a step is enabled.
SpecLive == Spec /\ WF_vars(Next)

(***************************************************************************)
(* Claims about the loader (SpecLoad).                                     *)
(***************************************************************************)
\* A row the contract keeps: at least 7 fields and a numeral in field 4.
Kept(row) == Len(row) >= MinFields /\ ParseFloat(row[5]).ok

\* A row cut to its first 7 fields.
FirstSeven(row) == IF Len(row) > MinFields THEN SubSeq(row, 1, MinFields) ELSE row

\* C1: the loader returns exactly the rows with at least 7 fields whose
\* field 4 parses as a float, in file order, with field 4 as ground truth,
\* field 5 as sentence1 and field 6 as sentence2; rows with empty sentence
\* text are kept and fields beyond index 6 have no effect.
C1_LoaderReturnsKeptRows ==
    pc = "loaded" =>
        LET k == SelectSeq(file, Kept)
            cut == load_sts_data_csv([i \in 1..Len(file) |-> FirstSeven(file[i])])
        IN  /\ sents1 = [i \in 1..Len(k) |-> k[i][6]]
            /\ sents2 = [i \in 1..Len(k) |-> k[i][7]]
            /\ scores = [i \in 1..Len(k) |-> ParseFloat(k[i][5]).val]
            /\ <<cut.sents1, cut.sents2, cut.scores>> = <<sents1, sents2, scores>>

\* C1 witness: a file of a skipped row and a kept row with empty sentence1.
C1_Witness ==
    /\ pc = "loaded"
    /\ Len(file) = 2
    /\ ~Kept(file[1])
    /\ Kept(file[2])
    /\ sents1 = << <<>> >>
    /\ Len(scores) = 1

\* C2: at every row boundary the three lists have the same length, index i
\* of each comes from the same input row, and the number of records is the
\* number of consumed rows that have 7 fields and a parsable field 4 (a row
\* whose field 4 fails to parse adds to none of the three).
C2_ListsAligned ==
    /\ Len(sents1) = Len(scores)
    /\ Len(sents2) = Len(scores)
    /\ Len(scores) = Cardinality({j \in 1..row_idx : Kept(file[j])})
    /\ \A i \in 1..Len(scores) :
          \E j \in 1..row_idx :
             /\ Kept(file[j])
             /\ sents1[i] = file[j][6]
             /\ sents2[i] = file[j][7]
             /\ scores[i] = ParseFloat(file[j][5]).val

\* C2 witness: mid-load, after a row that failed to parse and a kept row.
C2_Witness ==
    /\ pc = "load"
    /\ row_idx = 2
    /\ Len(file[1]) >= MinFields
    /\ ~ParseFloat(file[1][5]).ok
    /\ Len(scores) = 1
    /\ Len(sents1) = 1

\* C8: every skipped row is reported, so the number of reported skips is the
\* number of consumed rows minus the number of records.
C8_EverySkipReported ==
    Len(stdout) = row_idx - Len(scores)

(***************************************************************************)
(* Claims about the elicited scorer (SpecElicit).                          *)
(***************************************************************************)
\* The whitespace-delimited tokens of s, as <<first, last>> positions: the
\* maximal runs of non-whitespace characters.
TokenSpans(s) ==
    { sp \in (1..Len(s)) \X (1..Len(s)) :
        /\ sp[1] <= sp[2]
        /\ \A k \in sp[1]..sp[2] : s[k] \notin Whitespace
        /\ sp[1] = 1 \/ s[sp[1] - 1] \in Whitespace
        /\ sp[2] = Len(s) \/ s[sp[2] + 1] \in Whitespace }

\* C3: the scorer takes the leftmost whitespace token that parses as a
\* float, ignores later tokens, and returns that value times 5 clamped into
\* [0, 5]; "0.8 (high similarity)" gives 4.0; when no token parses it
\* returns no score (None), never 0.
C3_FirstTokenScaledClamped ==
    /\ get_llm_similarity_ollama(Response(ExampleResponse)).ret = Some(4 * Unit)
    /\ (pc = "returned" /\ ~calls[1].reply.raised) =>
          LET s == calls[1].reply.text
              P == { sp \in TokenSpans(s) :
                        ParseFloat(SubSeq(s, sp[1], sp[2])).ok }
          IN  IF P = {} THEN val = None
              ELSE LET f == CHOOSE sp \in P : \A q \in P : sp[1] <= q[1]
                       x == 5 * ParseFloat(SubSeq(s, f[1], f[2])).val
                   IN  /\ ~val.none
                       /\ val.val = IF x < 0 THEN 0
                                    ELSE IF x > 5 * Unit THEN 5 * Unit
                                    ELSE x

\* C3 witness: "very 0.8 1.5" scores 4.0: the first parsable token wins.
C3_Witness ==
    /\ pc = "returned"
    /\ Len(calls) = 1
    /\ calls[1].reply =
          Response(Join(<< <<"v", "e", "r", "y">>, <<"0", ".", "8">>,
                           <<"1", ".", "5">> >>, <<" ">>))
    /\ val = Some(4 * Unit)

(***************************************************************************)
(* Claims about the sorted series (SpecSort).                              *)
(***************************************************************************)
Count(q, p) == Cardinality({i \in 1..Len(q) : q[i] = p})

Bijections(n) ==
    { f \in [1..n -> 1..n] : \A i, j \in 1..n : f[i] = f[j] => i = j }

\* C10: the sorted series is a permutation of the multiset of (prediction,
\* ground truth) pairs, ascending by prediction with ties ascending by
\* ground truth, and every reordering of the input gives the same series.
C10_SortedSeries ==
    pc = "sorted" =>
        LET pairs == Zip(test_pred_final, test_gt)
            n == Len(pairs)
        IN  /\ Len(data) = n
            /\ \A i \in 1..n : Count(data, pairs[i]) = Count(pairs, pairs[i])
            /\ \A i, j \in 1..n :
                  i < j => \/ data[i][1] < data[j][1]
                           \/ /\ data[i][1] = data[j][1]
                              /\ data[i][2] <= data[j][2]
            /\ \A f \in Bijections(n) :
                  Sorted([i \in 1..n |-> pairs[f[i]]]) = data

\* C10 witness: equal predictions whose ground truths arrive out of order.
C10_Witness ==
    /\ pc = "sorted"
    /\ Len(test_gt) = 3
    /\ test_pred_final[1] = test_pred_final[2]
    /\ test_gt[1] > test_gt[2]
    /\ test_pred_final[3] < test_pred_final[1]
    /\ data # Zip(test_pred_final, test_gt)

(***************************************************************************)
(* Claims about a run of main() (Spec).                                    *)
(***************************************************************************)
\* A chat() outcome that yields no score: an error, or a response none of
\* whose whitespace tokens parses as a float.
ElicitationFailed(reply) ==
    \/ reply.raised
    \/ \A sp \in TokenSpans(reply.text) :
          ~ParseFloat(SubSeq(reply.text, sp[1], sp[2])).ok

AfterTrainScoring ==
    {"save_train", "fit", "score_test", "save_test", "apply", "evaluate",
     "plot", "done"}
AfterTestScoring == {"save_test", "apply", "evaluate", "plot", "done"}

\* C4: in the elicited pipeline a pair whose call raised or whose response
\* had no parsable token gets the raw score 2.5, every other pair whose call
\* returned keeps the score of its own response, and the loops go on to the last pair of the
\* train and of the test split.
C4_FallbackOnFailure ==
    variant = "llm" =>
        LET raw == train_pred_raw \o test_pred_raw
        IN  /\ Len(calls) = Len(raw) + (IF pc = "in_chat" THEN 1 ELSE 0)
            /\ \A i \in 1..Len(raw) :
                  IF ElicitationFailed(calls[i].reply)
                  THEN raw[i] = Fallback
                  ELSE raw[i] = get_llm_similarity_ollama(calls[i].reply).ret.val
            /\ pc \in AfterTrainScoring => Len(train_pred_raw) = Len(train_gt)
            /\ pc \in AfterTestScoring => Len(test_pred_raw) = Len(test_gt)

\* C4 witness: a finished run whose first train call raised, whose second
\* answered 0.8, and whose first test response was unparsable.
C4_Witness ==
    /\ variant = "llm"
    /\ pc = "done"
    /\ Len(train_pred_raw) = 2
    /\ calls[1].reply.raised
    /\ train_pred_raw = <<Fallback, 4 * Unit>>
    /\ ~calls[3].reply.raised
    /\ ElicitationFailed(calls[3].reply)
    /\ test_pred_raw[1] = Fallback

\* C5: whatever the input files and the external model do, the run is never
\* aborted by an error other than an unavailable embedding or lexical
\* collaborator.
C5_RunNeverAborts ==
    pc # "crashed"

\* C6: fit() is called once, on the train raw scores and train ground
\* truth, before predict(); the model stays the fit of the train split to the
\* end of the run and the final predictions are that model applied to the
\* test raw scores.
C6_FitOnceOnTrain ==
    /\ Len(fit_calls) <= 1
    /\ fit_calls # <<>> => fit_calls[1] = <<train_pred_raw, train_gt>>
    /\ lr_model.fitted =>
          /\ Len(fit_calls) = 1
          /\ lr_model = LinearRegressionFit(train_pred_raw, train_gt)
    /\ pc \in {"evaluate", "plot", "done"} =>
          /\ lr_model.fitted
          /\ test_pred_final =
                LinearRegressionPredict(
                    LinearRegressionFit(train_pred_raw, train_gt), test_pred_raw)

\* C6 witness: a finished run whose train and test splits differ and whose
\* model has a non-zero slope.
C6_Witness ==
    /\ pc = "done"
    /\ lr_model.fitted
    /\ lr_model.coef[1] # 0
    /\ Len(test_gt) = 2
    /\ <<test_pred_raw, test_gt>> # <<train_pred_raw, train_gt>>
    /\ LinearRegressionFit(test_pred_raw, test_gt) # lr_model

\* The lines of a text file: the segments its line breaks end, and the
\* unterminated rest if there is one.
RECURSIVE FileLines(_)
FileLines(t) ==
    IF t = <<>> THEN <<>>
    ELSE LET l == CHOOSE k \in 0..Len(t) :
                    /\ \A j \in 1..k : t[j] # "\n"
                    /\ k = Len(t) \/ t[k + 1] = "\n"
         IN  <<SubSeq(t, 1, l)>> \o FileLines(SubSeq(t, l + 2, Len(t)))

\* C7: in each pipeline a written raw score file has one line per score, in
\* score order, the i-th line being the i-th score.
C7_OneScorePerLine ==
    \A f \in {"train_scores", "test_scores"} :
        results[f].written =>
            LET raw == IF f = "train_scores" THEN train_pred_raw ELSE test_pred_raw
                ls == FileLines(results[f].text)
            IN  /\ Len(ls) = Len(raw)
                /\ \A i \in 1..Len(raw) : ParseFloat(ls[i]) = FloatOk(raw[i])

\* C9: when the final predictions or the test ground truth are constant (or
\* shorter than 2), the evaluation reports the correlation as "undefined":
\* neither a number nor NaN reaches the printed line and the annotation.
C9_UndefinedReported ==
    /\ ~(pc = "crashed" /\ Len(test_pred_final) = 1)
    /\ (/\ pc \in {"plot", "done"}
        /\ \/ Len(test_pred_final) < 2
           \/ IsConstant(test_pred_final)
           \/ IsConstant(test_gt))
       => /\ pearson_corr.kind = "undefined"
          /\ stdout[Len(stdout)].value.text # <<"n", "a", "n">>

\* C11: in the elicited pipeline the requests issued so far are, in order,
\* the requests for the first pairs of the train split followed by those of
\* the test split, one request per pair: no pair is requested twice, whatever
\* its outcome was, and once a split is scored exactly as many requests have
\* been issued for it as it has records.
C11_OneRequestPerPair ==
    variant = "llm" =>
        LET first == train_sents1 \o test_sents1
            second == train_sents2 \o test_sents2
            nTrain == Len(train_gt)
            nTest == Len(test_gt)
        IN  /\ Len(calls) <= nTrain + nTest
            /\ \A i \in 1..Len(calls) :
                  /\ calls[i].sent1 = first[i]
                  /\ calls[i].sent2 = second[i]
            /\ pc = "score_train" => Len(calls) <= nTrain
            /\ pc \in {"save_train", "fit"} => Len(calls) = nTrain
            /\ pc \in AfterTrainScoring => Len(calls) >= nTrain
            /\ pc \in AfterTestScoring => Len(calls) = nTrain + nTest

\* C11 witness: a finished run over two different train pairs and two
\* different test pairs whose first request raised and whose third was
\* unparsable, with four requests in all.
C11_Witness ==
    /\ variant = "llm"
    /\ pc = "done"
    /\ Len(train_gt) = 2
    /\ Len(test_gt) = 2
    /\ train_sents2[1] # train_sents2[2]
    /\ test_sents2[1] # test_sents2[2]
    /\ calls[1].reply.raised
    /\ ~calls[3].reply.raised
    /\ ElicitationFailed(calls[3].reply)
    /\ Len(calls) = 4
    /\ calls[2].sent2 = train_sents2[2]
    /\ calls[4].sent2 = test_sents2[2]

\* The positions of main() in which a split is being scored.
Scoring == {"score_train", "score_test", "in_chat"}

\* C12: in the elicited pipeline every request ends, by its response, its
\* error or its timeout, so a run that is scoring a split eventually is past
\* the scoring of that split.
C12_ScoringFinishes ==
    (variant = "llm" /\ pc \in Scoring) ~> (pc \notin Scoring)

\* The similarities of a scored split: entry i is the cosine of the
\* embeddings of the i-th first and the i-th second sentence.
PairwiseCosine(s1, s2) ==
    [i \in 1..Len(s1) |->
        cosine_similarity(embedder[s1[i]], embedder[s2[i]])]

\* C13: in the embedding pipeline the encoder is invoked once per scored
\* split, on the first sentences of the split followed by its second
\* sentences; the raw scores of a scored split are, entry by entry, the
\* cosine of the embeddings of the pair's two sentences, one entry per
\* record, with no clamping.
C13_OneEncodePerSplit ==
    variant = "semantic" =>
        /\ pc \in {"load", "fit_scorer", "scorer_unavailable", "score_train"}
              => encode_calls = <<>>
        /\ pc \in {"save_train", "fit", "score_test"} => Len(encode_calls) = 1
        /\ pc \in AfterTestScoring => Len(encode_calls) = 2
        /\ Len(encode_calls) <= 2
        /\ Len(encode_calls) >= 1 =>
              /\ encode_calls[1] = train_sents1 \o train_sents2
              /\ Len(train_pred_raw) = Len(train_gt)
              /\ train_pred_raw = PairwiseCosine(train_sents1, train_sents2)
        /\ Len(encode_calls) >= 2 =>
              /\ encode_calls[2] = test_sents1 \o test_sents2
              /\ Len(test_pred_raw) = Len(test_gt)
              /\ test_pred_raw = PairwiseCosine(test_sents1, test_sents2)

\* C13 witness: a finished run over two different train pairs and two test
\* pairs, with one encode call of four sentences per split and a negative
\* similarity among the raw train scores.
C13_Witness ==
    /\ variant = "semantic"
    /\ pc = "done"
    /\ Len(train_gt) = 2
    /\ Len(test_gt) = 2
    /\ train_sents2[1] # train_sents2[2]
    /\ Len(encode_calls) = 2
    /\ Len(encode_calls[1]) = 4
    /\ Len(encode_calls[2]) = 4
    /\ \E i \in 1..2 : train_pred_raw[i] < 0
    /\ \E i \in 1..2 : train_pred_raw[i] = Unit

\* C14: in the elicited pipeline the raw-score lists hold one entry per pair
\* whose request has returned, entry i belonging to the i-th pair of its
\* split; every entry is a number between 0 and 5, the fallback 2.5 or the
\* clamped score of the pair's response; and whenever the calibrator is fit
\* or applied the raw-score list it is given is as long as the ground truth
\* of that split.
C14_RawScoresAligned ==
    variant = "llm" =>
        LET raw == train_pred_raw \o test_pred_raw
            first == train_sents1 \o test_sents1
            second == train_sents2 \o test_sents2
            returned == IF pc = "in_chat" THEN Len(calls) - 1 ELSE Len(calls)
        IN  /\ Len(raw) = returned
            /\ Len(train_pred_raw) <= Len(train_gt)
            /\ Len(test_pred_raw) <= Len(test_gt)
            /\ test_pred_raw # <<>> => Len(train_pred_raw) = Len(train_gt)
            /\ \A i \in 1..Len(raw) :
                  /\ raw[i] \in ClipLow..ClipHigh
                  /\ calls[i].sent1 = first[i]
                  /\ calls[i].sent2 = second[i]
                  /\ \/ raw[i] = Fallback
                     \/ \E sp \in TokenSpans(calls[i].reply.text) :
                           LET tok == ParseFloat(SubSeq(calls[i].reply.text,
                                                        sp[1], sp[2]))
                           IN  tok.ok /\ raw[i] = Clip(tok.val * ScaleFactor)
            /\ \A k \in 1..Len(fit_calls) :
                  /\ Len(fit_calls[k][1]) = Len(fit_calls[k][2])
                  /\ fit_calls[k] = <<train_pred_raw, train_gt>>
            /\ pc = "fit" => Len(train_pred_raw) = Len(train_gt)
            /\ pc = "apply" => Len(test_pred_raw) = Len(test_gt)
            /\ pc \in {"evaluate", "plot", "done"} =>
                  Len(test_pred_final) = Len(test_gt)

\* C14 witness: the calibrator, fit on two train scores of which one is the
\* fallback and one a model score, is about to be applied to two test scores
\* of which the second is the fallback.
C14_Witness ==
    /\ variant = "llm"
    /\ pc = "apply"
    /\ fit_calls = << <<train_pred_raw, train_gt>> >>
    /\ train_pred_raw = <<4 * Unit, Fallback>>
    /\ Len(test_gt) = 2
    /\ test_pred_raw[2] = Fallback
    /\ ElicitationFailed(calls[2].reply)
    /\ ElicitationFailed(calls[4].reply)

=============================================================================
